---- MODULE Spec2Model ----
(***************************************************************************)
(* Facial attributes classifier (OnnxImageClassifier.tsx and variants):    *)
(* the per-image dominance resolver, the batch aggregator and the          *)
(* component state they run in.                                            *)
(*                                                                         *)
(* Probabilities are carried in permille (0..1000): 0.5 is 500.            *)
(* JavaScript's undefined / falsy string is the empty string "".           *)
(***************************************************************************)
EXTENDS Integers, Sequences, FiniteSets, TLC

(***************************************************************************)
(* Bounds of the model                                                     *)
(***************************************************************************)
\* images of one batch run (CONFIG.targetImages is 24 in the source)
MaxImages == 3
\* logits of the model output range over -MaxLogit..MaxLogit
MaxLogit == 1
\* resolver inputs: the logits other than 0 lie in a window of MaxWin
\* consecutive output positions
MaxWin == 2
\* resolver inputs: the output tensor has between N - MaxTrunc and N + 1 values
MaxTrunc == 5
\* batch inputs: the logit other than 0 sits on the second member of one of
\* the first HotGroups groups
HotGroups == 2
\* loadModel calls in flight at the same time
MaxLoads == 2
\* side of the canvas preprocessImage draws on (224 in the source)
MaxSide == 2

(***************************************************************************)
(* CONFIG of the two schema variants: "tsx" is OnnxImageClassifier.tsx     *)
(* (39 attributes, every index in a group), "cpu" is                       *)
(* OnnxImageClassifier_cpu.tsx (18 attributes, indices 0, 16, 17 in no     *)
(* group).                                                                 *)
(***************************************************************************)
Variants == {"tsx", "cpu"}

\* the classifier components whose render is modelled: OnnxImageClassifier.jsx
\* has the configuration of OnnxImageClassifier.tsx
Components == Variants \cup {"jsx"}

\* CONFIG.targetImages
targetImages == MaxImages

\* CONFIG.attributeNames of OnnxImageClassifier.tsx
attributeNames_tsx ==
  << "a man", "a woman", "a boy", "a girl",
     "a person with blond hair", "a person with brown hair",
     "a person with black hair", "a person with red hair",
     "a person with gray hair", "a person with white hair",
     "a bald person",
     "a bald person", "a person with short hair",
     "a person with hair around his neck",
     "a bald person", "a person with straight hair",
     "a person with curly hair", "a person with wavy hair",
     "a person with afro hair",
     "clean shaven", "stubble", "beard",
     "a person with brown eyes", "a person with blue eyes",
     "a person with green eyes", "a person with hazel eyes",
     "a person with black eyes", "a person with amber eyes",
     "a person with clean hair", "a person with few hair",
     "a woman with her head covered", "a woman with visible forehead",
     "a woman with a headband on her forehead", "a person with a hat",
     "a person with eyes", "a person with visible eyes",
     "a person with eye wrinkles", "a person with eye bags",
     "a person with eyeglasses" >>

\* CONFIG.attributeNames of OnnxImageClassifier_cpu.tsx
attributeNames_cpu ==
  << "smile", "gender_male", "gender_female",
     "hair_brown", "hair_black", "hair_blond", "hair_gray",
     "hair_long", "hair_short",
     "ethnicity_asian", "ethnicity_black", "ethnicity_latino",
     "ethnicity_white",
     "eye_blue", "eye_brown", "eye_green",
     "has_facial_hair", "a person with eyeglasses" >>

attributeNames(v) ==
  IF v = "cpu" THEN attributeNames_cpu ELSE attributeNames_tsx

\* CONFIG.attributeGroups of OnnxImageClassifier.tsx
attributeGroups_tsx ==
  << [name |-> "Gender",      indices |-> <<0, 1, 2, 3>>],
     [name |-> "Hair Color",  indices |-> <<4, 5, 6, 7, 8, 9, 10>>],
     [name |-> "Hair Length", indices |-> <<11, 12, 13>>],
     [name |-> "Hair Type",   indices |-> <<14, 15, 16, 17, 18>>],
     [name |-> "Facial Hair", indices |-> <<19, 20, 21>>],
     [name |-> "Eye Color",   indices |-> <<22, 23, 24, 25, 26, 27>>],
     [name |-> "Hat",         indices |-> <<28, 29, 30, 31, 32, 33>>],
     [name |-> "Eyeglasses",  indices |-> <<34, 35, 36, 37, 38>>] >>

\* CONFIG.attributeGroups of OnnxImageClassifier_cpu.tsx
attributeGroups_cpu ==
  << [name |-> "Gender",      indices |-> <<1, 2>>],
     [name |-> "Hair Color",  indices |-> <<3, 4, 5, 6>>],
     [name |-> "Hair Length", indices |-> <<7, 8>>],
     [name |-> "Ethnicity",   indices |-> <<9, 10, 11, 12>>],
     [name |-> "Eye Color",   indices |-> <<13, 14, 15>>] >>

attributeGroups(v) ==
  IF v = "cpu" THEN attributeGroups_cpu ELSE attributeGroups_tsx

\* CONFIG.displayMapping of OnnxImageClassifier.tsx: element i + 1 is the
\* label of attribute index i
displayMapping_tsx ==
  << "Uomo", "Donna", "Uomo", "Donna",
     "Capelli biondi", "Capelli Marroni", "Capelli neri", "Capelli rossi",
     "Capelli grigi", "Capelli bianchi", "No Capelli",
     "No capelli", "Capelli corti", "Capelli lunghi",
     "No capelli", "Capelli lisci", "Capelli ricci", "Capelli mossi",
     "Capelli afro",
     "Senza Barba", "Con Barba", "Con Barba",
     "Occhi marroni", "Occhi azzurri", "Occhi verdi", "Occhi verdi",
     "Occhi marroni", "Occhi verdi",
     "Senza Cappello", "Senza Cappello", "Con Cappello", "Senza Cappello",
     "Con Cappello", "Con Cappello",
     "Senza Occhiali", "Senza Occhiali", "Senza Occhiali",
     "Senza Occhiali", "Con Occhiali" >>

\* CONFIG.displayMapping of OnnxImageClassifier_cpu.tsx
displayMapping_cpu ==
  << "Sorriso", "Uomo", "Donna",
     "Capelli Marroni", "Capelli Neri", "Capelli Biondi", "Capelli Grigi",
     "Capelli Lunghi", "Capelli Corti",
     "Asiatico", "Nero", "Latino", "Bianco",
     "Occhi Azzurri", "Occhi Marroni", "Occhi Verdi",
     "Con Barba", "Con Occhiali" >>

displayMapping(v) ==
  IF v = "cpu" THEN displayMapping_cpu ELSE displayMapping_tsx

\* CONFIG.displayMapping[index]: undefined ("") for a key the object lacks
DisplayLookup(v, index) ==
  IF index + 1 \in DOMAIN displayMapping(v) THEN displayMapping(v)[index + 1]
  ELSE ""

\* a || b on strings
OrElse(a, b) == IF a # "" THEN a ELSE b

NumAttrs(v) == Len(attributeNames(v))

SeqToSet(s) == {s[k] : k \in DOMAIN s}

\* the indices some group declares
GroupedIndices(v) ==
  UNION {SeqToSet(attributeGroups(v)[g].indices) : g \in DOMAIN attributeGroups(v)}

(***************************************************************************)
(* preprocessImage: RGBA raster to planar tensor data                      *)
(***************************************************************************)
\* canvas.width, canvas.height
CanvasSide == MaxSide

\* JavaScript's null / undefined
Null == [null |-> TRUE]

\* data[i] ?? 0, data being indexed from 0
ByteAt(data, i) == IF i + 1 \in DOMAIN data THEN data[i + 1] ELSE 0

\* b / 255.0 as a fraction
Normalize(b) == [num |-> b, den |-> 255]

\* PixelLoop pushing the pixel's three values one after the other
\* (interleaved layout) into the first list
RECURSIVE PixelLoop_Interleaved(_, _, _)
PixelLoop_Interleaved(data, i, acc) ==
  IF ~(i < Len(data)) THEN acc
  ELSE PixelLoop_Interleaved(data, i + 4,
         [red   |-> acc.red \o << Normalize(ByteAt(data, i)),
                                  Normalize(ByteAt(data, i + 1)),
                                  Normalize(ByteAt(data, i + 2)) >>,
          green |-> << >>,
          blue  |-> << >>])

\* for (let i = 0; i < data.length; i += 4): acc is [red, green, blue]
RECURSIVE PixelLoop(_, _, _)
PixelLoop(data, i, acc) ==
  IF ~(i < Len(data)) THEN acc
  ELSE PixelLoop(data, i + 4,
         [red   |-> Append(acc.red,   Normalize(ByteAt(data, i))),
          green |-> Append(acc.green, Normalize(ByteAt(data, i + 1))),
          blue  |-> Append(acc.blue,  Normalize(ByteAt(data, i + 2)))])

\* the tensor preprocessImage resolves with for the pixel data of the canvas
PreprocessData(data) ==
  LET planes == PixelLoop(data, 0,
                          [red |-> << >>, green |-> << >>, blue |-> << >>])
  IN [data |-> planes.red \o planes.green \o planes.blue,
      dims |-> << 1, 3, CanvasSide, CanvasSide >>]

(***************************************************************************)
(* classifyImage: logits to observations                                   *)
(***************************************************************************)
\* Sigmoid with the sign of the exponent lost: 1 / (1 + Math.exp(pred))
Sigmoid_PlusExponent(pred) ==
  CASE pred = -4 -> 982
    [] pred = -3 -> 953
    [] pred = -2 -> 881
    [] pred = -1 -> 731
    [] pred = 0  -> 500
    [] pred = 1  -> 269
    [] pred = 2  -> 119
    [] pred = 3  -> 47
    [] pred = 4  -> 18

\* 1 / (1 + Math.exp(-pred)) in permille, for the integer logits -4..4
Sigmoid(pred) ==
  CASE pred = -4 -> 18
    [] pred = -3 -> 47
    [] pred = -2 -> 119
    [] pred = -1 -> 269
    [] pred = 0  -> 500
    [] pred = 1  -> 731
    [] pred = 2  -> 881
    [] pred = 3  -> 953
    [] pred = 4  -> 982

\* the loop of classifyImage over predictions: one observation per position
\* i < predictions.length && i < CONFIG.attributeNames.length
RECURSIVE BuildFrom(_, _, _)
BuildFrom(v, predictions, i) ==
  IF i < Len(predictions) /\ i < NumAttrs(v)
  THEN << [name        |-> attributeNames(v)[i + 1],
           probability |-> Sigmoid(predictions[i + 1]),
           rawValue    |-> predictions[i + 1],
           index       |-> i] >> \o BuildFrom(v, predictions, i + 1)
  ELSE << >>

BuildAttributes(v, predictions) == BuildFrom(v, predictions, 0)

(***************************************************************************)
(* getDominantAttributes                                                   *)
(***************************************************************************)
\* attributes.find(a => a.index === idx): position of the first match, 0 for
\* undefined
Find(attributes, idx) ==
  LET S == {k \in DOMAIN attributes : attributes[k].index = idx}
  IN IF S = {} THEN 0 ELSE CHOOSE k \in S : \A j \in S : k <= j

\* ScanGroup that never raises maxProb: every present member replaces the
\* holder
RECURSIVE ScanGroup_NoUpdate(_, _, _, _)
ScanGroup_NoUpdate(attributes, indices, p, acc) ==
  IF p > Len(indices) THEN acc
  ELSE LET attr == Find(attributes, indices[p])
       IN IF attr # 0 /\ attributes[attr].probability > acc.maxProb
          THEN ScanGroup_NoUpdate(attributes, indices, p + 1,
                                  [maxProb |-> acc.maxProb, maxAttr |-> attr])
          ELSE ScanGroup_NoUpdate(attributes, indices, p + 1, acc)

\* ScanGroup comparing with >= : an equal probability replaces the holder
RECURSIVE ScanGroup_TieLast(_, _, _, _)
ScanGroup_TieLast(attributes, indices, p, acc) ==
  IF p > Len(indices) THEN acc
  ELSE LET attr == Find(attributes, indices[p])
       IN IF attr # 0 /\ attributes[attr].probability >= acc.maxProb
          THEN ScanGroup_TieLast(attributes, indices, p + 1,
                                 [maxProb |-> attributes[attr].probability,
                                  maxAttr |-> attr])
          ELSE ScanGroup_TieLast(attributes, indices, p + 1, acc)

\* the inner loop over group.indices from position p on; acc is
\* [maxProb, maxAttr] with maxAttr a position of attributes, 0 for undefined
RECURSIVE ScanGroup(_, _, _, _)
ScanGroup(attributes, indices, p, acc) ==
  IF p > Len(indices) THEN acc
  ELSE LET attr == Find(attributes, indices[p])
       IN IF attr # 0 /\ attributes[attr].probability > acc.maxProb
          THEN ScanGroup(attributes, indices, p + 1,
                         [maxProb |-> attributes[attr].probability,
                          maxAttr |-> attr])
          ELSE ScanGroup(attributes, indices, p + 1, acc)

\* the object pushed for an observation: displayName is set when the label
\* (or the name) is truthy
WithDisplayName(v, a) ==
  LET displayName == OrElse(DisplayLookup(v, a.index), a.name)
  IN IF displayName # ""
     THEN [name |-> a.name, probability |-> a.probability,
           rawValue |-> a.rawValue, index |-> a.index,
           displayName |-> displayName]
     ELSE [name |-> a.name, probability |-> a.probability,
           rawValue |-> a.rawValue, index |-> a.index]

\* GroupLoop marking only the winner's index as used
RECURSIVE GroupLoop_MarkWinnerOnly(_, _, _, _)
GroupLoop_MarkWinnerOnly(v, attributes, g, st) ==
  IF g > Len(attributeGroups(v)) THEN st
  ELSE LET group == attributeGroups(v)[g]
           scan  == ScanGroup(attributes, group.indices, 1,
                              [maxProb |-> -1, maxAttr |-> 0])
       IN IF scan.maxAttr # 0
          THEN GroupLoop_MarkWinnerOnly(v, attributes, g + 1,
                 [dominantAttrs |->
                    Append(st.dominantAttrs,
                           WithDisplayName(v, attributes[scan.maxAttr])),
                  usedIndices |->
                    st.usedIndices \cup {attributes[scan.maxAttr].index}])
          ELSE GroupLoop_MarkWinnerOnly(v, attributes, g + 1, st)

\* the loop over CONFIG.attributeGroups from group g on; st is
\* [dominantAttrs, usedIndices]
RECURSIVE GroupLoop(_, _, _, _)
GroupLoop(v, attributes, g, st) ==
  IF g > Len(attributeGroups(v)) THEN st
  ELSE LET group == attributeGroups(v)[g]
           scan  == ScanGroup(attributes, group.indices, 1,
                              [maxProb |-> -1, maxAttr |-> 0])
       IN IF scan.maxAttr # 0
          THEN GroupLoop(v, attributes, g + 1,
                 [dominantAttrs |->
                    Append(st.dominantAttrs,
                           WithDisplayName(v, attributes[scan.maxAttr])),
                  usedIndices |-> st.usedIndices \cup SeqToSet(group.indices)])
          ELSE GroupLoop(v, attributes, g + 1, st)

\* UngroupedLoop keeping only the observations above 0.5
RECURSIVE UngroupedLoop_Confident(_, _, _, _)
UngroupedLoop_Confident(v, attributes, k, usedIndices) ==
  IF k > Len(attributes) THEN << >>
  ELSE IF attributes[k].index \notin usedIndices
          /\ attributes[k].probability > 500
       THEN << WithDisplayName(v, attributes[k]) >>
            \o UngroupedLoop_Confident(v, attributes, k + 1, usedIndices)
       ELSE UngroupedLoop_Confident(v, attributes, k + 1, usedIndices)

\* the final loop over attributes: those whose index was never marked used
RECURSIVE UngroupedLoop(_, _, _, _)
UngroupedLoop(v, attributes, k, usedIndices) ==
  IF k > Len(attributes) THEN << >>
  ELSE IF attributes[k].index \notin usedIndices
       THEN << WithDisplayName(v, attributes[k]) >>
            \o UngroupedLoop(v, attributes, k + 1, usedIndices)
       ELSE UngroupedLoop(v, attributes, k + 1, usedIndices)

\* getDominantAttributes returning the ungrouped observations first
getDominantAttributes_UngroupedFirst(v, attributes) ==
  LET st == GroupLoop(v, attributes, 1,
                      [dominantAttrs |-> << >>, usedIndices |-> {}])
  IN UngroupedLoop(v, attributes, 1, st.usedIndices) \o st.dominantAttrs

getDominantAttributes(v, attributes) ==
  LET st == GroupLoop(v, attributes, 1,
                      [dominantAttrs |-> << >>, usedIndices |-> {}])
  IN st.dominantAttrs \o UngroupedLoop(v, attributes, 1, st.usedIndices)

(***************************************************************************)
(* getFilteredAttributes                                                   *)
(***************************************************************************)
\* getFilteredAttributes with "else if": the confidence filter is skipped
\* when the dominance reduction ran
getFilteredAttributes_EitherOr(v, attributes, dominantOnly, highConfidence) ==
  IF dominantOnly THEN getDominantAttributes(v, attributes)
  ELSE IF highConfidence
       THEN SelectSeq(attributes, LAMBDA attr : attr.probability > 500)
       ELSE attributes

\* getFilteredAttributes keeping attr.probability >= 0.5
getFilteredAttributes_AtLeastHalf(v, attributes, dominantOnly, highConfidence) ==
  LET filtered == IF dominantOnly THEN getDominantAttributes(v, attributes)
                  ELSE attributes
  IN IF highConfidence
     THEN SelectSeq(filtered, LAMBDA attr : attr.probability >= 500)
     ELSE filtered

\* dominantOnly and highConfidence are the values of showDominantOnly and
\* showOnlyHighConfidence the render closes over
getFilteredAttributes(v, attributes, dominantOnly, highConfidence) ==
  LET filtered == IF dominantOnly THEN getDominantAttributes(v, attributes)
                  ELSE attributes
  IN IF highConfidence
     THEN SelectSeq(filtered, LAMBDA attr : attr.probability > 500)
     ELSE filtered

\* results.map((result) => ... ): the filteredAttributes of one outcome.
\* OnnxImageClassifier.tsx and OnnxImageClassifier_cpu.tsx pass
\* result.attributes || [], OnnxImageClassifier.jsx passes result.attributes,
\* which a failed outcome lacks: attributes.find / filtered.filter then
\* throw a TypeError, and with both switches off the value is undefined.
RenderFiltered(v, res, dominantOnly, highConfidence) ==
  IF res.success
  THEN [status |-> "list",
        list   |-> getFilteredAttributes(v, res.attributes, dominantOnly,
                                         highConfidence)]
  ELSE IF v = "jsx"
       THEN [status |-> IF dominantOnly \/ highConfidence THEN "TypeError"
                        ELSE "undefined",
             list   |-> << >>]
       ELSE [status |-> "list",
             list   |-> getFilteredAttributes(v, << >>, dominantOnly,
                                              highConfidence)]

(***************************************************************************)
(* getDominantInGroup / extractDominantAttributes (JSON helper, 39-        *)
(* attribute schema)                                                       *)
(***************************************************************************)
\* Math.round(p * 100) of a permille probability
RoundPercent(p) == (p + 5) \div 10

\* getDominantInGroup with >= in the comparison: of equal maxima the last
\* wins
getDominantInGroup_TieLast(attributes, groupName, groupIndices) ==
  LET scan == ScanGroup_TieLast(attributes, groupIndices, 1,
                                [maxProb |-> -1, maxAttr |-> 0])
  IN IF scan.maxAttr = 0 THEN Null
     ELSE LET dominant == attributes[scan.maxAttr]
          IN [group       |-> groupName,
              attribute   |-> OrElse(OrElse(DisplayLookup("tsx", dominant.index),
                                            dominant.name), "Unknown"),
              probability |-> dominant.probability,
              percentage  |-> RoundPercent(dominant.probability),
              index       |-> dominant.index]

getDominantInGroup(attributes, groupName, groupIndices) ==
  LET scan == ScanGroup(attributes, groupIndices, 1,
                        [maxProb |-> -1, maxAttr |-> 0])
  IN IF scan.maxAttr = 0 THEN Null
     ELSE LET dominant == attributes[scan.maxAttr]
          IN [group       |-> groupName,
              attribute   |-> OrElse(OrElse(DisplayLookup("tsx", dominant.index),
                                            dominant.name), "Unknown"),
              probability |-> dominant.probability,
              percentage  |-> RoundPercent(dominant.probability),
              index       |-> dominant.index]

RECURSIVE ExtractLoop(_, _)
ExtractLoop(attributes, g) ==
  IF g > Len(attributeGroups("tsx")) THEN << >>
  ELSE LET group    == attributeGroups("tsx")[g]
           dominant == getDominantInGroup(attributes, group.name, group.indices)
       IN (IF dominant # Null THEN << dominant >> ELSE << >>)
          \o ExtractLoop(attributes, g + 1)

\* result is a classification outcome; the dominantAttributes list
extractDominantAttributes(result) ==
  [imageId |-> result.imageNumber,
   dominantAttributes |->
     IF result.success THEN ExtractLoop(result.attributes, 1) ELSE << >>]

(***************************************************************************)
(* hasTrait / hasTraitByQuestion (JSON helper)                             *)
(***************************************************************************)
\* QUESTION_TO_TRAIT_MAPPING: element q + 1 is the trait of question q
QUESTION_TO_TRAIT_MAPPING ==
  << "Uomo", "Donna", "Capelli biondi", "Capelli marroni", "Capelli neri",
     "Capelli rossi", "No Capelli", "Capelli lunghi", "Capelli corti",
     "Capelli ricci", "Capelli lisci", "Con Barba", "Occhi azzurri",
     "Occhi verdi", "Occhi marroni", "Con Occhiali", "Con Cappello",
     "Vocale", "Consonante" >>

\* QUESTION_TO_TRAIT_MAPPING[questionIndex]: undefined ("") for a key the
\* object lacks
TraitLookup(questionIndex) ==
  IF questionIndex + 1 \in DOMAIN QUESTION_TO_TRAIT_MAPPING
  THEN QUESTION_TO_TRAIT_MAPPING[questionIndex + 1]
  ELSE ""

\* json.images.find(img => img.imageId === imageId): position of the first
\* match, 0 for undefined
FindImage(images, imageId) ==
  LET S == {k \in DOMAIN images : images[k].imageId = imageId}
  IN IF S = {} THEN 0 ELSE CHOOSE k \in S : \A j \in S : k <= j

\* image.dominantAttributes.find(attr => attr.attribute === trait)
FindAttribute(dominantAttributes, trait) ==
  LET S == {k \in DOMAIN dominantAttributes :
              dominantAttributes[k].attribute = trait}
  IN IF S = {} THEN 0 ELSE CHOOSE k \in S : \A j \in S : k <= j

\* hasTrait looking at the first image of json, whatever its id
hasTrait_FirstImage(json, imageId, trait) ==
  LET image == IF Len(json.images) > 0 THEN 1 ELSE 0
  IN IF image = 0 THEN [hasTrait |-> FALSE, percentage |-> 0]
     ELSE LET attrs == json.images[image].dominantAttributes
              attribute == FindAttribute(attrs, trait)
          IN IF attribute # 0
             THEN [hasTrait |-> TRUE,
                   percentage |-> attrs[attribute].percentage]
             ELSE [hasTrait |-> FALSE, percentage |-> 0]

hasTrait(json, imageId, trait) ==
  LET image == FindImage(json.images, imageId)
  IN IF image = 0 THEN [hasTrait |-> FALSE, percentage |-> 0]
     ELSE LET attrs == json.images[image].dominantAttributes
              attribute == FindAttribute(attrs, trait)
          IN IF attribute # 0
             THEN [hasTrait |-> TRUE,
                   percentage |-> attrs[attribute].percentage]
             ELSE [hasTrait |-> FALSE, percentage |-> 0]

\* the name hasTraitByQuestion tests, letter by letter
name == << "V", "a", "l", "e", "r", "i", "o" >>

\* /^[aeiou]/i.test(n)
StartsWithVowel(n) ==
  Len(n) > 0 /\ n[1] \in {"a", "e", "i", "o", "u", "A", "E", "I", "O", "U"}

hasTraitByQuestion(json, imageId, questionIndex) ==
  LET trait == TraitLookup(questionIndex)
  IN IF trait = "" THEN Null
     ELSE IF questionIndex > -1 /\ questionIndex < 17
          THEN hasTrait(json, imageId, trait)
          ELSE [hasTrait |-> StartsWithVowel(name), percentage |-> 100]

\* questionIndices.map(index => hasTraitByQuestion(json, imageId, index))
hasTraitsByQuestions(json, imageId, questionIndices) ==
  [k \in DOMAIN questionIndices |->
     hasTraitByQuestion(json, imageId, questionIndices[k])]

(***************************************************************************)
(* processAllImages: statistics of the dominant attributes                 *)
(***************************************************************************)
\* DisplayKey ignoring the display label
DisplayKey_NameOnly(attr) == attr.name

\* attr.displayName || attr.name
DisplayKey(attr) ==
  IF "displayName" \in DOMAIN attr THEN OrElse(attr.displayName, attr.name)
  ELSE attr.name

\* AddToStats counting every visit of a key instead of collecting image
\* numbers in a Set
AddToStats_CountVisits(stats, key, imageNumber) ==
  IF key \in DOMAIN stats
  THEN [stats EXCEPT ![key] = @ \cup {<<imageNumber, Cardinality(@)>>}]
  ELSE stats @@ (key :> {<<imageNumber, 0>>})

\* stats[key].add(imageNumber), creating the Set when the key is new
AddToStats(stats, key, imageNumber) ==
  IF key \in DOMAIN stats
  THEN [stats EXCEPT ![key] = @ \cup {imageNumber}]
  ELSE stats @@ (key :> {imageNumber})

\* dominantAttrs.forEach from position k on
RECURSIVE AttrLoop(_, _, _, _)
AttrLoop(stats, dominantAttrs, k, imageNumber) ==
  IF k > Len(dominantAttrs) THEN stats
  ELSE LET key == DisplayKey(dominantAttrs[k])
       IN IF key # ""
          THEN AttrLoop(AddToStats(stats, key, imageNumber),
                        dominantAttrs, k + 1, imageNumber)
          ELSE AttrLoop(stats, dominantAttrs, k + 1, imageNumber)

\* allResults.forEach from position k on
RECURSIVE ResultLoop(_, _, _, _)
ResultLoop(v, stats, allRes, k) ==
  IF k > Len(allRes) THEN stats
  ELSE LET res == allRes[k]
       IN IF res.success /\ "attributes" \in DOMAIN res
          THEN ResultLoop(v,
                 AttrLoop(stats, getDominantAttributes(v, res.attributes), 1,
                          res.imageNumber),
                 allRes, k + 1)
          ELSE ResultLoop(v, stats, allRes, k + 1)

\* finalStats[key] = stats[key].size
ComputeStats(v, allRes) ==
  LET stats == ResultLoop(v, << >>, allRes, 1)
  IN [key \in DOMAIN stats |-> Cardinality(stats[key])]

\* the keys dominantAttrs.forEach adds to stats, in the order it creates
\* them
RECURSIVE KeysAttrLoop(_, _, _)
KeysAttrLoop(keys, dominantAttrs, k) ==
  IF k > Len(dominantAttrs) THEN keys
  ELSE LET key == DisplayKey(dominantAttrs[k])
       IN IF key # "" /\ key \notin SeqToSet(keys)
          THEN KeysAttrLoop(Append(keys, key), dominantAttrs, k + 1)
          ELSE KeysAttrLoop(keys, dominantAttrs, k + 1)

RECURSIVE KeysResultLoop(_, _, _, _)
KeysResultLoop(v, keys, allRes, k) ==
  IF k > Len(allRes) THEN keys
  ELSE LET res == allRes[k]
       IN IF res.success /\ "attributes" \in DOMAIN res
          THEN KeysResultLoop(v,
                 KeysAttrLoop(keys, getDominantAttributes(v, res.attributes),
                              1),
                 allRes, k + 1)
          ELSE KeysResultLoop(v, keys, allRes, k + 1)

\* Object.keys(finalStats): finalStats gets its keys in the order of
\* Object.keys(stats)
StatsKeys(v, allRes) == KeysResultLoop(v, << >>, allRes, 1)

(***************************************************************************)
(* Render of the statistics                                                *)
(***************************************************************************)
\* Percentage with Math.floor instead of toFixed(0)
Percentage_Floor(count) == (count * 100) \div targetImages

\* ((count / CONFIG.targetImages) * 100).toFixed(0): the nearest integer, the
\* larger one of two equally near
Percentage(count) == (200 * count + targetImages) \div (2 * targetImages)

\* Object.entries(attributeStats)
StatsEntries(stats, keys) ==
  [k \in DOMAIN keys |-> <<keys[k], stats[keys[k]]>>]

\* InsertByCount with the comparator a[1] - b[1]
RECURSIVE InsertByCount_Ascending(_, _)
InsertByCount_Ascending(sorted, e) ==
  IF sorted = << >> THEN << e >>
  ELSE IF e[2] - sorted[1][2] < 0 THEN << e >> \o sorted
       ELSE << sorted[1] >> \o InsertByCount_Ascending(Tail(sorted), e)

\* the place of entry e in a list sorted by (a, b) => b[1] - a[1]: before
\* the first entry the comparator puts after it (the sort is stable)
RECURSIVE InsertByCount(_, _)
InsertByCount(sorted, e) ==
  IF sorted = << >> THEN << e >>
  ELSE IF sorted[1][2] - e[2] < 0 THEN << e >> \o sorted
       ELSE << sorted[1] >> \o InsertByCount(Tail(sorted), e)

\* entries.sort((a, b) => b[1] - a[1])
RECURSIVE SortEntries(_, _)
SortEntries(entries, k) ==
  IF k = 0 THEN << >>
  ELSE InsertByCount(SortEntries(entries, k - 1), entries[k])

\* the lines of the statistics block, rendered when attributeStats has a key
StatsLines(stats, keys) ==
  IF Len(keys) > 0
  THEN LET sorted == SortEntries(StatsEntries(stats, keys), Len(keys))
       IN [k \in DOMAIN sorted |->
             [position   |-> k,
              attribute  |-> sorted[k][1],
              count      |-> sorted[k][2],
              percentage |-> Percentage(sorted[k][2])]]
  ELSE << >>

(***************************************************************************)
(* Inputs of the model: output tensors of the inference session            *)
(***************************************************************************)
Logits == -MaxLogit .. MaxLogit

\* tensor data of length len: the logits w on the window starting at index
\* s, logit 0 elsewhere
Tensor(len, s, w) ==
  [k \in 1 .. len |->
     IF s <= k - 1 /\ k - 1 < s + Len(w) THEN w[k - s] ELSE 0]

\* output tensors the resolver is run on
ResolverInputs(v) ==
  {Tensor(len, s, w) : len \in (NumAttrs(v) - MaxTrunc) .. (NumAttrs(v) + 1),
                       s \in 0 .. NumAttrs(v) - 1,
                       w \in [1 .. MaxWin -> Logits]}

\* output tensors of the images of a batch: all logits 0, one logit 1 on the
\* second member of a group, or an empty tensor
BatchInputs(v) ==
  {Tensor(NumAttrs(v), 0, << >>), Tensor(0, 0, << >>)}
  \cup {Tensor(NumAttrs(v), attributeGroups(v)[g].indices[2], << 1 >>) :
          g \in {h \in DOMAIN attributeGroups(v) : h <= HotGroups}}

\* output tensors of the result on display: full length, or cut after the
\* first member of the last group
ViewInputs(v) ==
  {Tensor(len, s, w) :
     len \in {NumAttrs(v),
              attributeGroups(v)[Len(attributeGroups(v))].indices[1] + 1},
     s \in 0 .. NumAttrs(v) - 1,
     w \in [1 .. MaxWin -> Logits]}

\* values of a byte of the pixel data
ByteValues == {0, 128, 255}

\* imageData.data of the canvas: CanvasSide * CanvasSide pixels of 4 bytes;
\* pixel p holds rgba, every other byte depends on its position
Raster(p, rgba) ==
  [j \in 1 .. 4 * CanvasSide * CanvasSide |->
     IF 4 * p < j /\ j <= 4 * p + 4 THEN rgba[j - 4 * p]
     ELSE (7 * (j - 1)) % 256]

RasterInputs ==
  {Raster(p, rgba) : p \in 0 .. CanvasSide * CanvasSide - 1,
                     rgba \in [1 .. 4 -> ByteValues]}

\* question indices hasTraitByQuestion is called with: those of the mapping
\* and one on each side
QuestionIndices == -1 .. Len(QUESTION_TO_TRAIT_MAPPING)

(***************************************************************************)
(* State                                                                   *)
(***************************************************************************)
VARIABLES
  variant,        \* which CONFIG the component is built with
  session,        \* useState: the inference session, NoSession for null
  modelLoaded,    \* useState
  results,        \* useState: outcomes appended so far
  currentImage,   \* useState
  isProcessing,   \* useState
  error,          \* useState: global error message, "" for null
  elapsedTime,    \* useState
  attributeStats, \* useState: display key -> count
  statsKeys,      \* useState: Object.keys(attributeStats), in insertion order
  pc,             \* processAllImages: "idle" (never run), "preprocess",
                  \* "run", "settled", "done" (returned after a full run)
  i,              \* processAllImages: loop variable
  allResults,     \* processAllImages: local list of outcomes
  result,         \* outcome classifyImage returned, not yet pushed
  loadsPending,   \* loadModel calls awaiting fetch / session creation
  attributes,     \* resolver run: the observation sequence of one image
  fpc,            \* resolver run: "off", "input", "dominant" or "extract"
  domOut,         \* resolver run: result of getDominantAttributes
  jsonOut,        \* resolver run: dominantAttributes of extractDominantAttributes
  showDominantOnly,       \* useState
  showOnlyHighConfidence, \* useState
  filtOut,        \* render: the filteredAttributes list of the result shown
  shown,          \* render: the outcome on display
  renderStatus,   \* render: "list", "undefined" or "TypeError"
  raster,         \* preprocessImage run: imageData.data
  tensorIn,       \* preprocessImage run: the tensor it resolved with
  json,           \* trait query: the DominantAttributesJSON argument
  imageId,        \* trait query: argument
  questionIndex,  \* trait query: argument
  traitOut,       \* trait query: what hasTraitByQuestion / hasTrait returned
  trait,          \* trait query: argument of hasTrait
  questionIndices, \* trait query: argument of hasTraitsByQuestions
  traitsOut       \* trait query: what hasTraitsByQuestions returned

compVars == <<session, modelLoaded, results, currentImage, isProcessing, error,
              elapsedTime, attributeStats, statsKeys>>
runVars  == <<pc, i, allResults, result>>
loadVars == <<loadsPending>>
viewVars == <<showDominantOnly, showOnlyHighConfidence, filtOut, shown,
              renderStatus>>
preVars  == <<raster, tensorIn>>
traitVars == <<json, imageId, questionIndex, traitOut, trait, questionIndices,
               traitsOut>>
fnVars   == <<attributes, fpc, domOut, jsonOut, viewVars, preVars, traitVars>>

vars == <<variant, compVars, runVars, loadVars, fnVars>>

NoSession == "null"
NoResult  == [none |-> TRUE]

\* Number(((Date.now() - start) / 1000).toFixed(2)): 0 for a run shorter
\* than 5 ms, 1 stands for every positive value
ElapsedValues == {0, 1}

\* no render of an outcome is modelled
RenderOff == shown = NoResult /\ renderStatus = "off"

\* no preprocessImage run is modelled
PreOff == raster = << >> /\ tensorIn = Null

\* no trait query is modelled
TraitOff ==
  /\ json = Null /\ imageId = 0 /\ questionIndex = 0 /\ traitOut = Null
  /\ trait = "" /\ questionIndices = << >> /\ traitsOut = << >>

\* the component right after construction
InitComponent ==
  /\ session = NoSession
  /\ modelLoaded = FALSE
  /\ results = << >>
  /\ currentImage = 0
  /\ isProcessing = FALSE
  /\ error = ""
  /\ elapsedTime = 0
  /\ attributeStats = << >>
  /\ statsKeys = << >>
  /\ pc = "idle"
  /\ i = 0
  /\ allResults = << >>
  /\ result = NoResult
  /\ loadsPending = 0
  /\ showDominantOnly = TRUE
  /\ showOnlyHighConfidence = FALSE

(***************************************************************************)
(* The resolver applied to one observation sequence                        *)
(***************************************************************************)
InitDom ==
  /\ variant \in Variants
  /\ InitComponent
  /\ \E preds \in ResolverInputs(variant) :
       attributes = BuildAttributes(variant, preds)
  /\ fpc = "input"
  /\ domOut = << >>
  /\ jsonOut = << >>
  /\ filtOut = << >>
  /\ RenderOff
  /\ PreOff
  /\ TraitOff

ApplyDominant ==
  /\ fpc = "input"
  /\ domOut' = getDominantAttributes(variant, attributes)
  /\ fpc' = "dominant"
  /\ UNCHANGED <<variant, compVars, runVars, loadVars, attributes, jsonOut,
               viewVars, preVars, traitVars>>

\* the JSON helper run on the outcome, before or after the component has
\* resolved it
ApplyExtract ==
  /\ fpc \in {"input", "dominant"}
  /\ variant = "tsx"
  /\ jsonOut' = extractDominantAttributes(
                  [imageNumber |-> 1, success |-> TRUE,
                   attributes |-> attributes]).dominantAttributes
  /\ fpc' = IF fpc = "input" THEN "extract" ELSE "both"
  /\ UNCHANGED <<variant, compVars, runVars, loadVars, attributes, domOut,
               viewVars, preVars, traitVars>>

NextDom == ApplyDominant \/ ApplyExtract

SpecDom == InitDom /\ [][NextDom]_vars

(***************************************************************************)
(* Properties of the resolver (checked under SpecDom)                      *)
(***************************************************************************)
\* the declared indices of group g of the component's schema
Members(g) == SeqToSet(attributeGroups(variant)[g].indices)

\* the indices the observation sequence holds
PresentIndices == {attributes[k].index : k \in DOMAIN attributes}

\* the probability the observation sequence holds for a present index
ProbOf(idx) ==
  LET k == CHOOSE j \in DOMAIN attributes : attributes[j].index = idx
  IN attributes[k].probability

\* the positions of domOut whose observation belongs to group g
OutOfGroup(g) == {k \in DOMAIN domOut : domOut[k].index \in Members(g)}

\* C1: the observation returned for a group, by getDominantAttributes and by
\* getDominantInGroup, carries the probability of its own index and that
\* probability is >= the probability of every member of the group present
\* in the input.
C1_DominantIsMax ==
  /\ fpc = "dominant" =>
       \A g \in DOMAIN attributeGroups(variant) : \A k \in OutOfGroup(g) :
         /\ domOut[k].index \in PresentIndices
         /\ domOut[k].probability = ProbOf(domOut[k].index)
         /\ \A m \in Members(g) \cap PresentIndices :
              domOut[k].probability >= ProbOf(m)
  /\ fpc = "extract" =>
       \A k \in DOMAIN jsonOut : \A g \in DOMAIN attributeGroups(variant) :
         attributeGroups(variant)[g].name = jsonOut[k].group =>
           /\ jsonOut[k].index \in Members(g) \cap PresentIndices
           /\ jsonOut[k].probability = ProbOf(jsonOut[k].index)
           /\ \A m \in Members(g) \cap PresentIndices :
                jsonOut[k].probability >= ProbOf(m)

\* a group whose winner is not its first member and beats a present member
C1_Witness ==
  /\ fpc = "dominant"
  /\ \E g \in DOMAIN attributeGroups(variant) : \E k \in OutOfGroup(g) :
       /\ domOut[k].index # attributeGroups(variant)[g].indices[1]
       /\ \E m \in Members(g) \cap PresentIndices :
            domOut[k].probability > ProbOf(m)

\* C2: among the present members of a group that share the maximal
\* probability, the resolver returns the one that comes first in the
\* group's declared index order.
C2_FirstWinsTies ==
  fpc = "dominant" =>
    \A g \in DOMAIN attributeGroups(variant) : \A k \in OutOfGroup(g) :
      LET indices == attributeGroups(variant)[g].indices
          tied == {p \in DOMAIN indices :
                     /\ indices[p] \in PresentIndices
                     /\ \A m \in Members(g) \cap PresentIndices :
                          ProbOf(indices[p]) >= ProbOf(m)}
      IN \E p \in tied : /\ indices[p] = domOut[k].index
                         /\ \A q \in tied : p <= q

\* two present members share the maximal probability, above the others
C2_Witness ==
  /\ fpc = "dominant"
  /\ \E g \in DOMAIN attributeGroups(variant) :
       \E a, b, c \in Members(g) \cap PresentIndices :
         /\ a # b
         /\ ProbOf(a) = ProbOf(b)
         /\ ProbOf(c) < ProbOf(a)
         /\ \A m \in Members(g) \cap PresentIndices : ProbOf(m) <= ProbOf(a)
         /\ OutOfGroup(g) # {}

\* C3: the output of getDominantAttributes holds exactly one observation of
\* a group when a member of the group is present in the input, none when no
\* member is present; no member of the group that another member beats is
\* in the output.
C3_OnePerGroup ==
  fpc = "dominant" =>
    \A g \in DOMAIN attributeGroups(variant) :
      /\ Cardinality(OutOfGroup(g)) =
           IF Members(g) \cap PresentIndices # {} THEN 1 ELSE 0
      /\ \A k \in OutOfGroup(g) : \A m \in Members(g) \cap PresentIndices :
           m # domOut[k].index => ProbOf(m) <= domOut[k].probability

\* a truncated output: one group with no member present, another with
\* several members present
C3_Witness ==
  /\ fpc = "dominant"
  /\ \E g, h \in DOMAIN attributeGroups(variant) :
       /\ Members(g) \cap PresentIndices = {}
       /\ Cardinality(Members(h) \cap PresentIndices) > 1
       /\ Cardinality(OutOfGroup(h)) = 1

\* C4: every attribute index that belongs to no declared group and is
\* present in the input appears exactly once in the output of
\* getDominantAttributes, whatever its probability.
C4_UngroupedOnce ==
  fpc = "dominant" =>
    \A idx \in PresentIndices \ GroupedIndices(variant) :
      Cardinality({k \in DOMAIN domOut : domOut[k].index = idx}) = 1

\* an ungrouped index present with a probability below 0.5
C4_Witness ==
  /\ fpc = "dominant"
  /\ \E idx \in PresentIndices \ GroupedIndices(variant) :
       /\ ProbOf(idx) < 500
       /\ \E k \in DOMAIN domOut : domOut[k].index = idx

\* C5: the output of getDominantAttributes lists the group winners first,
\* in group declaration order, then the ungrouped observations in their
\* original index order.
C5_OutputOrder ==
  fpc = "dominant" =>
    \A j, k \in DOMAIN domOut :
      j < k =>
        LET a == domOut[j].index
            b == domOut[k].index
            GroupOf(x) == CHOOSE g \in DOMAIN attributeGroups(variant) :
                            x \in Members(g)
        IN IF a \in GroupedIndices(variant)
           THEN b \in GroupedIndices(variant) => GroupOf(a) < GroupOf(b)
           ELSE b \notin GroupedIndices(variant) /\ a < b

\* winners of several groups followed by several ungrouped observations,
\* one of which precedes the group members in the input
C5_Witness ==
  /\ fpc = "dominant"
  /\ Cardinality({k \in DOMAIN domOut :
                    domOut[k].index \in GroupedIndices(variant)}) > 1
  /\ Cardinality({k \in DOMAIN domOut :
                    domOut[k].index \notin GroupedIndices(variant)}) > 1
  /\ \E k \in DOMAIN domOut : domOut[k].index = 0 /\ k > 1

(***************************************************************************)
(* The component: loadModel                                                *)
(***************************************************************************)
\* the message loadModel sets in its catch block, without the text of the
\* exception
LoadErrorMessage(v) ==
  IF v = "cpu" THEN "Failed to load model"
  ELSE "Errore nel caricamento del modello"

\* click on "Load Model" (enabled unless modelLoaded || isProcessing): the
\* code up to the first await; OnnxImageClassifier.tsx begins with
\* setError(null), OnnxImageClassifier_cpu.tsx does not
LoadModelStart ==
  /\ ~modelLoaded /\ ~isProcessing
  /\ loadsPending < MaxLoads
  /\ error' = IF variant = "cpu" THEN error ELSE ""
  /\ loadsPending' = loadsPending + 1
  /\ UNCHANGED <<variant, session, modelLoaded, results, currentImage,
                 isProcessing, elapsedTime, attributeStats, statsKeys,
                 runVars, fnVars>>

\* fetches and InferenceSession.create succeeded
LoadModelOk ==
  /\ loadsPending > 0
  /\ session' = "session"
  /\ modelLoaded' = TRUE
  /\ loadsPending' = loadsPending - 1
  /\ UNCHANGED <<variant, results, currentImage, isProcessing, error,
                 elapsedTime, attributeStats, statsKeys, runVars, fnVars>>

\* LoadModelFail with setModelLoaded(true) after the try/catch
LoadModelFail_MarksLoaded ==
  /\ loadsPending > 0
  /\ error' = LoadErrorMessage(variant)
  /\ modelLoaded' = TRUE
  /\ loadsPending' = loadsPending - 1
  /\ UNCHANGED <<variant, session, results, currentImage,
                 isProcessing, elapsedTime, attributeStats, statsKeys,
                 runVars, fnVars>>

\* a fetch or InferenceSession.create threw
LoadModelFail ==
  /\ loadsPending > 0
  /\ error' = LoadErrorMessage(variant)
  /\ loadsPending' = loadsPending - 1
  /\ UNCHANGED <<variant, session, modelLoaded, results, currentImage,
                 isProcessing, elapsedTime, attributeStats, statsKeys,
                 runVars, fnVars>>

(***************************************************************************)
(* The component: processAllImages and classifyImage                       *)
(***************************************************************************)
\* ProcessNoSession with setIsProcessing(true) ahead of the session check
ProcessNoSession_MarksProcessing ==
  /\ pc \in {"idle", "done"}
  /\ session = NoSession
  /\ error' = "Carica prima il modello"
  /\ isProcessing' = TRUE
  /\ UNCHANGED <<variant, session, modelLoaded, results, currentImage,
                 elapsedTime, attributeStats, statsKeys,
                 runVars, loadVars,
                 fnVars>>

\* processAllImages called while no session is stored
ProcessNoSession ==
  /\ pc \in {"idle", "done"}
  /\ session = NoSession
  /\ error' = "Carica prima il modello"
  /\ UNCHANGED <<variant, session, modelLoaded, results, currentImage,
                 isProcessing, elapsedTime, attributeStats, statsKeys,
                 runVars, loadVars,
                 fnVars>>

\* ProcessStart with a Start button that is not disabled while a batch is
\* processing
ProcessStart_WhileProcessing ==
  /\ modelLoaded
  /\ session # NoSession
  /\ isProcessing' = TRUE
  /\ results' = << >>
  /\ error' = ""
  /\ elapsedTime' = 0
  /\ attributeStats' = << >>
  /\ statsKeys' = << >>
  /\ allResults' = << >>
  /\ i' = 1
  /\ currentImage' = 1
  /\ pc' = "preprocess"
  /\ UNCHANGED <<variant, session, modelLoaded, result, loadVars, fnVars>>

\* ProcessStart without setAttributeStats({}): the statistics of the run
\* before stay on display until the new run completes
ProcessStart_KeepsStats ==
  /\ modelLoaded /\ ~isProcessing
  /\ session # NoSession
  /\ isProcessing' = TRUE
  /\ results' = << >>
  /\ error' = ""
  /\ elapsedTime' = 0
  /\ allResults' = << >>
  /\ i' = 1
  /\ currentImage' = 1
  /\ pc' = "preprocess"
  /\ UNCHANGED <<variant, session, modelLoaded, attributeStats, statsKeys,
                 result, loadVars, fnVars>>

\* click on "Start Classification" (enabled when modelLoaded && !isProcessing):
\* the resets, then the first iteration up to the await in classifyImage
ProcessStart ==
  /\ modelLoaded /\ ~isProcessing
  /\ session # NoSession
  /\ isProcessing' = TRUE
  /\ results' = << >>
  /\ error' = ""
  /\ elapsedTime' = 0
  /\ attributeStats' = << >>
  /\ statsKeys' = << >>
  /\ allResults' = << >>
  /\ i' = 1
  /\ currentImage' = 1
  /\ pc' = "preprocess"
  /\ UNCHANGED <<variant, session, modelLoaded, result, loadVars, fnVars>>

\* Failed carrying no error message
Failed_NoMessage(imageNumber, message) ==
  [imageNumber |-> imageNumber, error |-> "", success |-> FALSE]

\* the outcome classifyImage returns from its catch block
Failed(imageNumber, message) ==
  [imageNumber |-> imageNumber, error |-> message, success |-> FALSE]

\* the outcome classifyImage returns for the tensor data preds
Succeeded(v, imageNumber, preds) ==
  [imageNumber |-> imageNumber, attributes |-> BuildAttributes(v, preds),
   success |-> TRUE]

\* preprocessImage resolved: classifyImage goes on to sess.run
PreprocessOk ==
  /\ pc = "preprocess"
  /\ pc' = "run"
  /\ UNCHANGED <<variant, compVars, i, allResults, result, loadVars, fnVars>>

\* PreprocessFail without the try/catch of classifyImage: the rejection
\* leaves processAllImages
PreprocessFail_Abort ==
  /\ pc = "preprocess"
  /\ pc' = "idle"
  /\ i' = 0
  /\ allResults' = << >>
  /\ UNCHANGED <<variant, compVars, result, loadVars, fnVars>>

\* preprocessImage rejected (img.onerror, no 2D context)
PreprocessFail ==
  /\ pc = "preprocess"
  /\ result' = Failed(i, "Impossibile caricare l'immagine")
  /\ pc' = "settled"
  /\ UNCHANGED <<variant, compVars, i, allResults, loadVars, fnVars>>

\* sess.run resolved with an output tensor
RunOk ==
  /\ pc = "run"
  /\ \E preds \in BatchInputs(variant) :
       result' = Succeeded(variant, i, preds)
  /\ pc' = "settled"
  /\ UNCHANGED <<variant, compVars, i, allResults, loadVars, fnVars>>

\* sess.run rejected, or no output tensor
RunFail ==
  /\ pc = "run"
  /\ result' = Failed(i, "Output tensor is undefined")
  /\ pc' = "settled"
  /\ UNCHANGED <<variant, compVars, i, allResults, loadVars, fnVars>>

\* ResumeNext without the await on classifyImage: the loop goes on to image
\* i + 1 while image i is still being classified
ResumeNext_NoAwait ==
  /\ pc = "run"
  /\ i + 1 <= targetImages
  /\ i' = i + 1
  /\ currentImage' = i + 1
  /\ pc' = "preprocess"
  /\ UNCHANGED <<variant, session, modelLoaded, results, isProcessing, error,
                 elapsedTime, attributeStats, statsKeys, allResults, result,
                 loadVars,
                 fnVars>>

\* processAllImages resumes after the await: push, then the next iteration
ResumeNext ==
  /\ pc = "settled"
  /\ i + 1 <= targetImages
  /\ allResults' = Append(allResults, result)
  /\ results' = Append(results, result)
  /\ i' = i + 1
  /\ currentImage' = i + 1
  /\ result' = NoResult
  /\ pc' = "preprocess"
  /\ UNCHANGED <<variant, session, modelLoaded, isProcessing, error,
                 elapsedTime, attributeStats, statsKeys, loadVars, fnVars>>

\* ResumeFinish with setResults([...results, result]) on the results value
\* captured when processAllImages was called
ResumeFinish_StaleResults ==
  /\ pc = "settled"
  /\ ~(i + 1 <= targetImages)
  /\ results' = << result >>
  /\ attributeStats' = ComputeStats(variant, Append(allResults, result))
  /\ statsKeys' = StatsKeys(variant, Append(allResults, result))
  /\ elapsedTime' \in ElapsedValues
  /\ isProcessing' = FALSE
  /\ currentImage' = 0
  /\ allResults' = << >>
  /\ result' = NoResult
  /\ i' = 0
  /\ pc' = "done"
  /\ UNCHANGED <<variant, session, modelLoaded, error, loadVars, fnVars>>

\* ResumeFinish without setIsProcessing(false) and setCurrentImage(0)
ResumeFinish_StaysProcessing ==
  /\ pc = "settled"
  /\ ~(i + 1 <= targetImages)
  /\ results' = Append(results, result)
  /\ attributeStats' = ComputeStats(variant, Append(allResults, result))
  /\ statsKeys' = StatsKeys(variant, Append(allResults, result))
  /\ elapsedTime' \in ElapsedValues
  /\ allResults' = << >>
  /\ result' = NoResult
  /\ i' = 0
  /\ pc' = "done"
  /\ UNCHANGED <<variant, session, modelLoaded, error, isProcessing,
                 currentImage, loadVars, fnVars>>

\* processAllImages resumes after the last await: push, statistics, final
\* state updates
ResumeFinish ==
  /\ pc = "settled"
  /\ ~(i + 1 <= targetImages)
  /\ results' = Append(results, result)
  /\ attributeStats' = ComputeStats(variant, Append(allResults, result))
  /\ statsKeys' = StatsKeys(variant, Append(allResults, result))
  /\ elapsedTime' \in ElapsedValues
  /\ isProcessing' = FALSE
  /\ currentImage' = 0
  /\ allResults' = << >>
  /\ result' = NoResult
  /\ i' = 0
  /\ pc' = "done"
  /\ UNCHANGED <<variant, session, modelLoaded, error, loadVars, fnVars>>

Init ==
  /\ variant \in Variants
  /\ InitComponent
  /\ attributes = << >>
  /\ fpc = "off"
  /\ domOut = << >>
  /\ jsonOut = << >>
  /\ filtOut = << >>
  /\ RenderOff
  /\ PreOff
  /\ TraitOff

Next ==
  \/ LoadModelStart
  \/ LoadModelOk
  \/ LoadModelFail
  \/ ProcessNoSession
  \/ ProcessStart
  \/ PreprocessOk
  \/ PreprocessFail
  \/ RunOk
  \/ RunFail
  \/ ResumeNext
  \/ ResumeFinish

Spec == Init /\ [][Next]_vars

(***************************************************************************)
(* Properties of the batch (checked under Spec)                            *)
(***************************************************************************)
\* a batch run has completed and no other is in progress
BatchDone == pc = "done"

\* the display keys of the dominant selection of a successful outcome: the
\* display label of the index, or the attribute name when it has no label
DominantKeys(res) ==
  LET sel == getDominantAttributes(variant, res.attributes)
  IN {OrElse(DisplayLookup(variant, sel[k].index), sel[k].name) :
        k \in DOMAIN sel}

\* the count of key in a statistics map, 0 when absent
CountOf(stats, key) == IF key \in DOMAIN stats THEN stats[key] ELSE 0

\* C6: after a batch, no count exceeds the number of images processed, and
\* adding one image to the images before it raises the count of a key by at
\* most 1, also when several groups of that image resolve to the same key.
C6_AtMostOnePerImage ==
  BatchDone =>
    LET upTo == {<<n, ComputeStats(variant, SubSeq(results, 1, n))>> :
                   n \in 0 .. Len(results)}
    IN /\ \A key \in DOMAIN attributeStats :
            attributeStats[key] <= Len(results)
       /\ <<Len(results), attributeStats>> \in upTo
       /\ \A a, b \in upTo :
            b[1] = a[1] + 1 =>
              \A key \in DOMAIN b[2] :
                CountOf(b[2], key) - CountOf(a[2], key) <= 1

\* every image succeeded and each resolved two groups to the same key
C6_Witness ==
  /\ BatchDone
  /\ \A n \in DOMAIN results :
       /\ results[n].success
       /\ LET sel == getDominantAttributes(variant, results[n].attributes)
          IN \E j, k \in DOMAIN sel :
               j # k /\ sel[j].displayName = sel[k].displayName
  /\ \E key \in DOMAIN attributeStats : attributeStats[key] = Len(results)

\* C7: after a batch, the statistics hold exactly the display keys that are
\* dominant in some successful image, each with the number of distinct
\* successful images whose dominant selection holds it.
C7_CountsDistinctImages ==
  BatchDone =>
    LET dominantIn ==
          UNION {{<<results[k].imageNumber, key>> :
                    key \in DominantKeys(results[k])} :
                   k \in {j \in DOMAIN results : results[j].success}}
    IN /\ DOMAIN attributeStats = {p[2] : p \in dominantIn}
       /\ \A key \in DOMAIN attributeStats :
            attributeStats[key] =
              Cardinality({p[1] : p \in {q \in dominantIn : q[2] = key}})

\* all images succeeded, a key is dominant in images 1 and 3 but not in 2
C7_Witness ==
  /\ BatchDone
  /\ Len(results) >= 3
  /\ \A n \in DOMAIN results : results[n].success
  /\ \E key \in DOMAIN attributeStats :
       /\ attributeStats[key] = 2
       /\ key \notin DominantKeys(results[2])

\* C8: a failed image stays in the result sequence, at its place, with
\* success = false and an error message, and the statistics of the batch
\* are those computed from its successful images alone.
C8_FailedCountsNothing ==
  /\ \A k \in DOMAIN results :
       ~results[k].success =>
         /\ results[k].imageNumber = k
         /\ "error" \in DOMAIN results[k]
         /\ results[k].error # ""
         /\ "attributes" \notin DOMAIN results[k]
  /\ BatchDone =>
       /\ attributeStats =
            ComputeStats(variant, SelectSeq(results, LAMBDA r : r.success))
       /\ \A key \in DOMAIN attributeStats :
            attributeStats[key]
              <= Cardinality({k \in DOMAIN results : results[k].success})

\* image 2 of 3 failed, images 1 and 3 succeeded and are counted
C8_Witness ==
  /\ BatchDone
  /\ Len(results) >= 3
  /\ results[1].success /\ ~results[2].success /\ results[3].success
  /\ \E key \in DOMAIN attributeStats : attributeStats[key] = 2

\* C9: an error raised while classifying image i becomes the failed outcome
\* of image i and does not end the run: the run stays in progress, the
\* outcomes already collected are kept, and the next step of the run
\* appends the failed outcome and goes on to image i + 1 (or finishes the
\* batch after the last image).
C9_FailureDoesNotAbort ==
  [][/\ (pc \in {"preprocess", "run"} /\ pc' \notin {"preprocess", "run"}) =>
          /\ pc' = "settled"
          /\ result'.imageNumber = i
          /\ isProcessing' /\ i' = i
          /\ results' = results /\ allResults' = allResults
     /\ (pc = "settled" /\ ~result.success /\ pc' # "settled") =>
          /\ results' = Append(results, result)
          /\ IF i < targetImages
             THEN pc' = "preprocess" /\ i' = i + 1 /\ currentImage' = i + 1
                  /\ isProcessing'
             ELSE pc' = "done" /\ Len(results') = targetImages
    ]_vars

\* image 1 failed and a later image has been classified successfully
C9_Witness ==
  /\ Len(results) >= 2
  /\ ~results[1].success
  /\ \E k \in DOMAIN results : k > 1 /\ results[k].success

\* C10: when processAllImages completes, the result sequence has exactly
\* targetImages entries and its k-th entry is the outcome of image k.
C10_OneOutcomePerImage ==
  BatchDone =>
    /\ Len(results) = targetImages
    /\ \A k \in DOMAIN results : results[k].imageNumber = k

\* a completed run with failed and successful outcomes
C10_Witness ==
  /\ BatchDone
  /\ elapsedTime > 0
  /\ \E j, k \in DOMAIN results : results[j].success /\ ~results[k].success

\* C11: while image i of a run is being classified, the outcomes of the
\* images 1..i-1, and only those, have been produced and appended, in
\* order; image i is the only one in progress and has no outcome before
\* classifyImage settles.
C11_OneImageAtATime ==
  pc \in {"preprocess", "run", "settled"} =>
    /\ i \in 1 .. targetImages
    /\ currentImage = i
    /\ Len(results) = i - 1
    /\ allResults = results
    /\ \A k \in DOMAIN results : results[k].imageNumber = k
    /\ pc \in {"preprocess", "run"} => result = NoResult
    /\ pc = "settled" => result.imageNumber = i

\* the last image is at the inference call, all the images before it have
\* their outcome
C11_Witness ==
  /\ pc = "run"
  /\ i = targetImages
  /\ Len(results) = targetImages - 1
  /\ i > 2

(***************************************************************************)
(* The Display Filter: one result on display, the two checkboxes           *)
(***************************************************************************)
\* a result with the observation sequence attributes is on display with the
\* switches as constructed
InitView ==
  /\ variant \in Variants
  /\ InitComponent
  /\ \E preds \in ViewInputs(variant) :
       attributes = BuildAttributes(variant, preds)
  /\ fpc = "view"
  /\ domOut = << >>
  /\ jsonOut = << >>
  /\ shown = [imageNumber |-> 1, attributes |-> attributes, success |-> TRUE]
  /\ filtOut = RenderFiltered(variant, shown, showDominantOnly,
                              showOnlyHighConfidence).list
  /\ renderStatus = RenderFiltered(variant, shown, showDominantOnly,
                                   showOnlyHighConfidence).status
  /\ PreOff
  /\ TraitOff

\* onChange of the "Show dominant only" checkbox (rendered while results are
\* shown), then the render of the result with the new value
SetShowDominantOnly ==
  /\ fpc = "view"
  /\ showDominantOnly' = ~showDominantOnly
  /\ filtOut' = RenderFiltered(variant, shown, showDominantOnly',
                               showOnlyHighConfidence).list
  /\ renderStatus' = RenderFiltered(variant, shown, showDominantOnly',
                                    showOnlyHighConfidence).status
  /\ UNCHANGED <<variant, compVars, runVars, loadVars, attributes, fpc,
                 domOut, jsonOut, showOnlyHighConfidence, shown, preVars,
                 traitVars>>

\* onChange of the "Only >50%" checkbox, then the render of the result
SetShowOnlyHighConfidence ==
  /\ fpc = "view"
  /\ showOnlyHighConfidence' = ~showOnlyHighConfidence
  /\ filtOut' = RenderFiltered(variant, shown, showDominantOnly,
                               showOnlyHighConfidence').list
  /\ renderStatus' = RenderFiltered(variant, shown, showDominantOnly,
                                    showOnlyHighConfidence').status
  /\ UNCHANGED <<variant, compVars, runVars, loadVars, attributes, fpc,
                 domOut, jsonOut, showDominantOnly, shown, preVars,
                 traitVars>>

NextView == SetShowDominantOnly \/ SetShowOnlyHighConfidence

SpecView == InitView /\ [][NextView]_vars

(***************************************************************************)
(* Properties of the Display Filter (checked under SpecView)               *)
(***************************************************************************)
\* the positions of filtOut whose observation belongs to group g
ShownOfGroup(g) == {k \in DOMAIN filtOut : filtOut[k].index \in Members(g)}

\* the positions of filtOut that hold index idx
ShownAt(idx) == {k \in DOMAIN filtOut : filtOut[k].index = idx}

\* C12: with both switches on, the filtered list holds exactly the dominant
\* selection entries above 0.5: every entry is above 0.5; a group shows
\* its winner (and nothing else) when the winner is above 0.5 and nothing
\* when it is at or below 0.5; an ungrouped observation is shown exactly
\* when it is above 0.5.
C12_DominantThenConfident ==
  (fpc = "view" /\ showDominantOnly /\ showOnlyHighConfidence) =>
    /\ \A k \in DOMAIN filtOut :
         /\ filtOut[k].probability > 500
         /\ filtOut[k].index \in PresentIndices
         /\ filtOut[k].probability = ProbOf(filtOut[k].index)
    /\ \A g \in DOMAIN attributeGroups(variant) :
         LET present == Members(g) \cap PresentIndices
         IN /\ Cardinality(ShownOfGroup(g)) =
                 IF \E m \in present : ProbOf(m) > 500 THEN 1 ELSE 0
            /\ \A k \in ShownOfGroup(g) : \A m \in present :
                 ProbOf(m) <= filtOut[k].probability
    /\ \A idx \in PresentIndices \ GroupedIndices(variant) :
         Cardinality(ShownAt(idx)) = IF ProbOf(idx) > 500 THEN 1 ELSE 0

\* both switches on: one group has a winner and a runner-up above 0.5,
\* another has its winner at exactly 0.5
C12_Witness ==
  /\ fpc = "view" /\ showDominantOnly /\ showOnlyHighConfidence
  /\ \E g, h \in DOMAIN attributeGroups(variant) :
       /\ Cardinality({m \in Members(g) \cap PresentIndices :
                         ProbOf(m) > 500}) > 1
       /\ Cardinality(ShownOfGroup(g)) = 1
       /\ Members(h) \cap PresentIndices # {}
       /\ \A m \in Members(h) \cap PresentIndices : ProbOf(m) <= 500
       /\ \E m \in Members(h) \cap PresentIndices : ProbOf(m) = 500
       /\ ShownOfGroup(h) = {}

\* C13: with only the confidence switch on, the filtered list is the
\* subsequence of the input observations whose probability is strictly
\* greater than 0.5, in input order; with both switches off it is the input
\* itself.
C13_ConfidentOnly ==
  /\ (fpc = "view" /\ ~showDominantOnly /\ showOnlyHighConfidence) =>
       /\ \A k \in DOMAIN filtOut :
            /\ filtOut[k].probability > 500
            /\ \E j \in DOMAIN attributes : attributes[j] = filtOut[k]
       /\ \A j \in DOMAIN attributes :
            Cardinality(ShownAt(attributes[j].index)) =
              IF attributes[j].probability > 500 THEN 1 ELSE 0
       /\ \A j, k \in DOMAIN filtOut :
            j < k => \E a, b \in DOMAIN attributes :
                       /\ a < b
                       /\ attributes[a] = filtOut[j]
                       /\ attributes[b] = filtOut[k]
  /\ (fpc = "view" /\ ~showDominantOnly /\ ~showOnlyHighConfidence) =>
       filtOut = attributes

\* only the confidence switch on: two observations above 0.5 are shown, the
\* others, at exactly 0.5, are dropped
C13_Witness ==
  /\ fpc = "view" /\ ~showDominantOnly /\ showOnlyHighConfidence
  /\ Len(filtOut) = 2
  /\ \E j \in DOMAIN attributes : attributes[j].probability = 500
  /\ \A j \in DOMAIN attributes : attributes[j].probability >= 500

(***************************************************************************)
(* Properties of the statistics block (checked under Spec)                 *)
(***************************************************************************)
\* C15: every statistics entry is shown with its count and with the
\* integer nearest to count / N * 100 (the larger of two equally near),
\* N being the number of outcomes of the batch, failed ones included; the
\* percentage lies in 0..100.
C15_PercentageOfImages ==
  LET lines == StatsLines(attributeStats, statsKeys)
      N == Len(results)
  IN /\ {lines[k].attribute : k \in DOMAIN lines} = DOMAIN attributeStats
     /\ \A k \in DOMAIN lines :
          LET c == lines[k].count
              pct == lines[k].percentage
          IN /\ c = attributeStats[lines[k].attribute]
             /\ pct \in 0 .. 100
             /\ 2 * pct * N <= 200 * c + N
             /\ 200 * c + N < 2 * (pct + 1) * N

\* a batch with a failed image and an entry whose percentage is rounded
C15_Witness ==
  /\ BatchDone
  /\ \E k \in DOMAIN results : ~results[k].success
  /\ \E k \in DOMAIN StatsLines(attributeStats, statsKeys) :
       LET line == StatsLines(attributeStats, statsKeys)[k]
       IN /\ line.count > 0
          /\ line.percentage * Len(results) > 100 * line.count

\* C16: the statistics block lists every entry once, by count in
\* descending order: no entry has a count greater than the count of an
\* entry before it.
C16_SortedByCountDescending ==
  LET lines == StatsLines(attributeStats, statsKeys)
  IN /\ Len(lines) = Cardinality(DOMAIN attributeStats)
     /\ \A key \in DOMAIN attributeStats :
          \E k \in DOMAIN lines : /\ lines[k].attribute = key
                                  /\ lines[k].count = attributeStats[key]
     /\ \A j, k \in DOMAIN lines :
          j < k => lines[j].count >= lines[k].count

\* the statistics were built with a key of smaller count before a key of
\* larger count, and hold three different counts
C16_Witness ==
  /\ BatchDone
  /\ \E a, b \in DOMAIN statsKeys :
       a < b /\ attributeStats[statsKeys[a]] < attributeStats[statsKeys[b]]
  /\ Cardinality({attributeStats[key] : key \in DOMAIN attributeStats}) >= 3

(***************************************************************************)
(* preprocessImage applied to the pixel data of one canvas                 *)
(***************************************************************************)
InitPre ==
  /\ variant \in Variants
  /\ InitComponent
  /\ attributes = << >>
  /\ fpc = "raster"
  /\ domOut = << >>
  /\ jsonOut = << >>
  /\ filtOut = << >>
  /\ RenderOff
  /\ raster \in RasterInputs
  /\ tensorIn = Null
  /\ TraitOff

\* img.onload: the loop over the pixel data and the tensor
ApplyPreprocess ==
  /\ fpc = "raster"
  /\ tensorIn' = PreprocessData(raster)
  /\ fpc' = "tensor"
  /\ UNCHANGED <<variant, compVars, runVars, loadVars, attributes, domOut,
                 jsonOut, viewVars, raster, traitVars>>

NextPre == ApplyPreprocess

SpecPre == InitPre /\ [][NextPre]_vars

\* C18: for the RGBA pixel data of a T x T canvas, preprocessImage yields
\* 3 * T * T values in planar layout: the value at c * T * T + p is byte
\* 4p + c of the pixel data divided by 255, for every pixel p and channel
\* c of R, G, B; the alpha bytes have no influence.
C18_PlanarLayout ==
  fpc = "tensor" =>
    LET T == CanvasSide
        out == tensorIn.data
    IN /\ Len(raster) = 4 * T * T
       /\ Len(out) = 3 * T * T
       /\ \A p \in 0 .. T * T - 1 : \A c \in 0 .. 2 :
            /\ out[c * T * T + p + 1].num = raster[4 * p + c + 1]
            /\ out[c * T * T + p + 1].den = 255
       /\ \A other \in RasterInputs :
            (\A p \in 0 .. T * T - 1 : \A c \in 0 .. 2 :
               other[4 * p + c + 1] = raster[4 * p + c + 1])
              => PreprocessData(other).data = out

\* a pixel other than the first with three different colour bytes and an
\* alpha byte that differs from all of them
C18_Witness ==
  /\ fpc = "tensor"
  /\ \E p \in 1 .. CanvasSide * CanvasSide - 1 :
       /\ raster[4 * p + 1] = 255
       /\ raster[4 * p + 2] = 0
       /\ raster[4 * p + 3] = 128
       /\ raster[4 * p + 4] = 255
       /\ tensorIn.data[p + 1].num = 255

(***************************************************************************)
(* Properties of the probabilities (checked under SpecDom)                 *)
(***************************************************************************)
\* C19: every probability classifyImage produces lies in [0, 1] and
\* depends on the logit of its own position only, as the logistic sigmoid
\* does: equal logits give equal probabilities, a larger logit never gives
\* a smaller probability, logit 0 gives 0.5, and the probabilities of x
\* and -x add up to 1 (to the permille). Stated of the observation
\* sequence as classifyImage returned it.
C19_SigmoidOfOwnLogit ==
  fpc = "input" =>
    \A j, k \in DOMAIN attributes :
      LET a == attributes[j]
          b == attributes[k]
      IN /\ a.probability \in 0 .. 1000
         /\ a.rawValue <= b.rawValue => a.probability <= b.probability
         /\ a.rawValue = b.rawValue => a.probability = b.probability
         /\ a.rawValue = 0 => a.probability = 500
         /\ a.rawValue = -b.rawValue =>
              a.probability + b.probability \in 999 .. 1001

\* observations with a negative, a zero and a positive logit
C19_Witness ==
  \E j, k, l \in DOMAIN attributes :
    /\ fpc = "input"
    /\ attributes[j].rawValue < 0
    /\ attributes[k].rawValue = 0
    /\ attributes[l].rawValue > 0
    /\ attributes[j].probability < attributes[k].probability
    /\ attributes[k].probability < attributes[l].probability

(***************************************************************************)
(* hasTraitByQuestion applied to one JSON document                         *)
(***************************************************************************)
\* the JSON generateDominantAttributesJSON builds from one classification
\* outcome
JsonOf(res) ==
  [totalImages |-> 1, elapsedTime |-> 0,
   images |-> << extractDominantAttributes(res) >>]

\* the JSON generateDominantAttributesJSON builds from the outcomes of two
\* images
JsonOfPair(res1, res2) ==
  [totalImages |-> 2, elapsedTime |-> 0,
   images |-> << extractDominantAttributes(res1),
                 extractDominantAttributes(res2) >>]

\* output tensors of the images of a JSON document: all logits 0, logit 1 at
\* one index, or empty
JsonTensors ==
  {Tensor(NumAttrs("tsx"), 0, << >>), Tensor(0, 0, << >>)}
  \cup {Tensor(NumAttrs("tsx"), s, << 1 >>) : s \in 0 .. NumAttrs("tsx") - 1}

\* JSON documents: one image, classified or failed, or a failed image 1
\* followed by a classified image 2
JsonInputs ==
  {JsonOf(Succeeded("tsx", 1, preds)) : preds \in JsonTensors}
  \cup {JsonOf(Failed(1, "Impossibile caricare l'immagine"))}
  \cup {JsonOfPair(Failed(1, "Impossibile caricare l'immagine"),
                   Succeeded("tsx", 2, preds)) :
          preds \in {Tensor(NumAttrs("tsx"), s, << 1 >>) : s \in {1, 14}}}

\* traits hasTrait is called with: labels of the display mapping, a trait of
\* the question mapping that is no label, and strings that are neither
TraitArgs ==
  {"Uomo", "Donna", "No capelli", "Capelli Marroni", "Capelli marroni",
   "Con Occhiali", "Sconosciuto"}

\* question lists hasTraitsByQuestions is called with
QuestionLists == {<< a, b >> : a, b \in {16, 17, 18, 19}}

InitTrait ==
  /\ variant = "tsx"
  /\ InitComponent
  /\ attributes = << >>
  /\ fpc = "query"
  /\ domOut = << >>
  /\ jsonOut = << >>
  /\ filtOut = << >>
  /\ RenderOff
  /\ PreOff
  /\ json \in JsonInputs
  /\ imageId \in {1, 2}
  /\ \/ /\ questionIndex \in QuestionIndices
        /\ trait = ""
        /\ questionIndices = << >>
     \/ /\ questionIndex = 0
        /\ trait \in TraitArgs
        /\ questionIndices = << >>
     \/ /\ questionIndex = 0
        /\ trait = ""
        /\ questionIndices \in QuestionLists
  /\ traitOut = Null
  /\ traitsOut = << >>

ApplyHasTraitByQuestion ==
  /\ fpc = "query"
  /\ traitOut' = hasTraitByQuestion(json, imageId, questionIndex)
  /\ fpc' = "answer"
  /\ UNCHANGED <<variant, compVars, runVars, loadVars, attributes, domOut,
                 jsonOut, viewVars, preVars, json, imageId, questionIndex,
                 trait, questionIndices, traitsOut>>

ApplyHasTrait ==
  /\ fpc = "query"
  /\ traitOut' = hasTrait(json, imageId, trait)
  /\ fpc' = "hasTrait"
  /\ UNCHANGED <<variant, compVars, runVars, loadVars, attributes, domOut,
                 jsonOut, viewVars, preVars, json, imageId, questionIndex,
                 trait, questionIndices, traitsOut>>

ApplyHasTraitsByQuestions ==
  /\ fpc = "query"
  /\ traitsOut' = hasTraitsByQuestions(json, imageId, questionIndices)
  /\ fpc' = "answers"
  /\ UNCHANGED <<variant, compVars, runVars, loadVars, attributes, domOut,
                 jsonOut, viewVars, preVars, json, imageId, questionIndex,
                 trait, questionIndices, traitOut>>

NextTrait ==
  \/ ApplyHasTraitByQuestion
  \/ ApplyHasTrait
  \/ ApplyHasTraitsByQuestions

SpecTrait == InitTrait /\ [][NextTrait]_vars

\* the questions the mapping marks "non classificabile"
NotClassifiable == {17, 18}

\* C20: hasTraitByQuestion returns null for every question that is not
\* classifiable from the image, the questions 17 and 18 and every index
\* absent from the mapping; it never returns a hasTrait / percentage object
\* for them.
C20_NullWhenNotClassifiable ==
  (/\ fpc = "answer"
   /\ \/ questionIndex \in NotClassifiable
      \/ questionIndex + 1 \notin DOMAIN QUESTION_TO_TRAIT_MAPPING)
    => traitOut = Null

\* the positions of json.images that hold imageId
ImagesWithId == {k \in DOMAIN json.images : json.images[k].imageId = imageId}

\* the positions of the dominant attributes of image k labelled trait
Labelled(k) ==
  {a \in DOMAIN json.images[k].dominantAttributes :
     json.images[k].dominantAttributes[a].attribute = trait}

VisualQuestions == 0 .. 16

\* C29: every visual question 0..16 can be answered positively: some
\* classification outcome makes hasTraitByQuestion return hasTrait = true
\* for it, the trait of the question being a label of the display mapping.
C29_VisualQuestionAnswerable ==
  (fpc = "answer" /\ questionIndex \in VisualQuestions) =>
    /\ \E j \in JsonInputs :
         hasTraitByQuestion(j, 1, questionIndex).hasTrait
    /\ \E index \in 0 .. NumAttrs("tsx") - 1 :
         DisplayLookup("tsx", index) = TraitLookup(questionIndex)

\* C30: asked together, the two name questions 17 (vowel) and 18
\* (consonant) never get the same hasTrait value.
C30_NameQuestionsComplementary ==
  fpc = "answers" =>
    \A a, b \in DOMAIN questionIndices :
      (questionIndices[a] = 17 /\ questionIndices[b] = 18) =>
        /\ traitsOut[a] # Null
        /\ traitsOut[b] # Null
        /\ traitsOut[a].hasTrait # traitsOut[b].hasTrait

(***************************************************************************)
(* A batch run started after a completed one                               *)
(***************************************************************************)
\* the outcomes of a completed run in which every image gave the tensor preds
EarlierRun(v, preds) ==
  [k \in 1 .. targetImages |-> Succeeded(v, k, preds)]

\* the component after a completed batch run that took measurable time
InitRerun ==
  /\ variant \in Variants
  /\ session = "session"
  /\ modelLoaded = TRUE
  /\ \E preds \in BatchInputs(variant) :
       /\ results = EarlierRun(variant, preds)
       /\ attributeStats = ComputeStats(variant, results)
       /\ statsKeys = StatsKeys(variant, results)
  /\ currentImage = 0
  /\ isProcessing = FALSE
  /\ error = ""
  /\ elapsedTime = 1
  /\ pc = "done"
  /\ i = 0
  /\ allResults = << >>
  /\ result = NoResult
  /\ loadsPending = 0
  /\ showDominantOnly = TRUE
  /\ showOnlyHighConfidence = FALSE
  /\ attributes = << >>
  /\ fpc = "off"
  /\ domOut = << >>
  /\ jsonOut = << >>
  /\ filtOut = << >>
  /\ RenderOff
  /\ PreOff
  /\ TraitOff

NextRerun ==
  \/ ProcessStart
  \/ PreprocessOk
  \/ PreprocessFail
  \/ RunOk
  \/ RunFail
  \/ ResumeNext
  \/ ResumeFinish

SpecRerun == InitRerun /\ [][NextRerun]_vars

\* C22: the statistics belong to one batch run: while a run is in progress
\* the statistics are empty and the result sequence holds outcomes of that
\* run only; when it has completed, the statistics are those of the
\* outcomes of that run, whatever the run before it left.
C22_StatsOfOneRun ==
  /\ isProcessing =>
       /\ attributeStats = << >>
       /\ statsKeys = << >>
       /\ Len(results) < i
       /\ \A k \in DOMAIN results : results[k].imageNumber = k
  /\ BatchDone =>
       /\ attributeStats = ComputeStats(variant, results)
       /\ \A k \in DOMAIN results :
            ~results[k].success => results[k].error # ""
       /\ (\A k \in DOMAIN results : ~results[k].success) =>
            attributeStats = << >>

\* a later run in which every image failed has completed: the statistics
\* are empty although the run before had all its images classified
C22_Witness ==
  /\ BatchDone
  /\ elapsedTime = 0
  /\ Len(results) = targetImages
  /\ \A k \in DOMAIN results : ~results[k].success
  /\ attributeStats = << >>

\* the message of processAllImages when no session is stored
NoModelMessage == "Carica prima il modello"

\* C23: processAllImages called while no session is stored only sets the
\* error message 'Carica prima il modello': the step that puts the message
\* up classifies nothing and leaves the result sequence, the statistics,
\* isProcessing, currentImage and elapsedTime as they were.
C23_NoSessionOnlyError ==
  [][(session = NoSession /\ error # NoModelMessage
        /\ error' = NoModelMessage) =>
       /\ UNCHANGED <<results, attributeStats, statsKeys, isProcessing,
                      currentImage, elapsedTime>>
       /\ UNCHANGED <<session, modelLoaded, runVars>>]_vars

\* the message is up while a load is pending: nothing else has changed
C23_Witness ==
  /\ error = NoModelMessage
  /\ session = NoSession
  /\ loadsPending > 0
  /\ ~isProcessing
  /\ results = << >>
  /\ pc = "idle"

(***************************************************************************)
(* Progress of a batch run                                                 *)
(***************************************************************************)
\* the guard of ResumeFinish: the last image has settled
ResumeFinishEnabled == pc = "settled" /\ ~(i + 1 <= targetImages)

\* Spec with the scheduling of a batch run: the decode of an image settles
\* (img.onload or img.onerror), the inference settles (sess.run resolves or
\* rejects), and the continuation of processAllImages after an await is run
\* by the event loop.
\* For ResumeFinish the weak fairness condition WF_vars(ResumeFinish) is
\* written out, with the guard of the action standing for its ENABLED.
FairSpec ==
  /\ Spec
  /\ WF_vars(PreprocessOk \/ PreprocessFail)
  /\ WF_vars(RunOk \/ RunFail)
  /\ WF_vars(ResumeNext)
  /\ \/ []<>(~ResumeFinishEnabled)
     \/ []<><<ResumeFinish>>_vars

\* C24: every started batch eventually finishes: a run in progress leads to
\* isProcessing = false, currentImage = 0 with the outcomes of all the
\* images and their statistics in place; a run starts at currentImage = 1,
\* currentImage stays or grows by one at each of its steps, and the run
\* ends from currentImage = targetImages.
C24_BatchTerminates ==
  /\ isProcessing ~>
       (/\ ~isProcessing
        /\ currentImage = 0
        /\ Len(results) = targetImages
        /\ DOMAIN attributeStats = SeqToSet(statsKeys))
  /\ [][/\ (~isProcessing /\ isProcessing') => currentImage' = 1
        /\ (isProcessing /\ isProcessing') =>
             currentImage' \in {currentImage, currentImage + 1}
        /\ (isProcessing /\ ~isProcessing') =>
             currentImage = targetImages /\ currentImage' = 0]_vars

\* a run has finished with statistics for its images
C24_Witness ==
  /\ pc = "done"
  /\ ~isProcessing
  /\ currentImage = 0
  /\ Len(results) = targetImages
  /\ statsKeys # << >>
  /\ DOMAIN attributeStats = SeqToSet(statsKeys)

(***************************************************************************)
(* The render of the outcomes of a batch, failed ones included             *)
(***************************************************************************)
\* output tensors of the outcome on display: those of a batch, or logit 1
\* at one index
RenderInputs(v) ==
  BatchInputs(v)
  \cup {Tensor(NumAttrs(v), s, << 1 >>) : s \in 0 .. NumAttrs(v) - 1}

\* the outcomes classifyImage returns for image 1
Outcomes(v) ==
  {Succeeded(v, 1, preds) : preds \in RenderInputs(v)}
  \cup {Failed(1, "Impossibile caricare l'immagine"),
        Failed(1, "Output tensor is undefined")}

\* an outcome of a batch is on display in one of the components, with the
\* switches as constructed
InitRender ==
  /\ variant \in Components
  /\ InitComponent
  /\ shown \in Outcomes(variant)
  /\ attributes = IF shown.success THEN shown.attributes ELSE << >>
  /\ fpc = "view"
  /\ domOut = << >>
  /\ jsonOut = << >>
  /\ filtOut = RenderFiltered(variant, shown, showDominantOnly,
                              showOnlyHighConfidence).list
  /\ renderStatus = RenderFiltered(variant, shown, showDominantOnly,
                                   showOnlyHighConfidence).status
  /\ PreOff
  /\ TraitOff

SpecRender == InitRender /\ [][NextView]_vars

\* C25: the Display Filter applied to the outcome of a failed image gives
\* an empty attribute list and raises no error, for every combination of
\* the two switches, in every variant of the component.
C25_FailedRendersEmpty ==
  (fpc = "view" /\ ~shown.success) =>
    (renderStatus = "list" /\ filtOut = << >>)

(***************************************************************************)
(* One batch run at a time                                                 *)
(***************************************************************************)
\* a run of processAllImages is between its start and its last state update
RunActive == pc \in {"preprocess", "run", "settled"}

\* C26: a batch starts only while the model is loaded and no batch is
\* processing; a run is active exactly while isProcessing is set, so there
\* is never a second one; the result sequence never holds more than
\* targetImages entries nor two entries with the same image number.
C26_OneRunAtATime ==
  /\ [](/\ RunActive <=> isProcessing
        /\ isProcessing => modelLoaded
        /\ Len(results) <= targetImages
        /\ \A j, k \in DOMAIN results :
             j # k => results[j].imageNumber # results[k].imageNumber)
  /\ [][(pc' = "preprocess" /\ i' = 1 /\ << pc, i >> # << pc', i' >>) =>
         (modelLoaded /\ ~isProcessing /\ ~RunActive)]_vars

\* the last image of a run has settled while a second load of the model is
\* still pending
C26_Witness ==
  /\ isProcessing
  /\ pc = "settled"
  /\ Len(results) = targetImages - 1
  /\ loadsPending > 0

(***************************************************************************)
(* loadModel: session and modelLoaded                                      *)
(***************************************************************************)
\* C27: whatever loads were attempted, modelLoaded is true exactly when a
\* session is stored; a load that settles either stores a session and sets
\* modelLoaded, or, failing, leaves both as they were and sets the error
\* message of the load.
C27_LoadedIffSession ==
  /\ [](modelLoaded <=> session # NoSession)
  /\ [][loadsPending' < loadsPending =>
         \/ session' # NoSession /\ modelLoaded' /\ error' = error
         \/ /\ UNCHANGED <<session, modelLoaded>>
            /\ error' = LoadErrorMessage(variant)]_vars

\* one load has failed and another is pending: no session, not loaded
C27_Witness ==
  /\ error = LoadErrorMessage(variant)
  /\ loadsPending > 0
  /\ session = NoSession
  /\ ~modelLoaded

(***************************************************************************)
(* The JSON path and the UI path on the same outcome                       *)
(***************************************************************************)
\* the label the result card shows for entry k of the dominant selection:
\* attr.displayName if set, else attr.name
ShownLabel(k) ==
  IF "displayName" \in DOMAIN domOut[k] THEN domOut[k].displayName
  ELSE domOut[k].name

\* C28: on the same observations the JSON helper and the component select
\* the same winners with the same labels: the JSON list is the component's
\* list up to its last group winner, entry for entry (index, label,
\* probability, group), and what follows in the component's list is
\* ungrouped.
C28_SameWinners ==
  fpc = "both" =>
    /\ Len(jsonOut) <= Len(domOut)
    /\ \A k \in DOMAIN jsonOut :
         /\ jsonOut[k].index = domOut[k].index
         /\ jsonOut[k].attribute = ShownLabel(k)
         /\ jsonOut[k].probability = domOut[k].probability
         /\ \E g \in DOMAIN attributeGroups("tsx") :
              /\ jsonOut[k].group = attributeGroups("tsx")[g].name
              /\ jsonOut[k].index \in Members(g)
    /\ \A k \in DOMAIN domOut :
         k > Len(jsonOut) => domOut[k].index \notin GroupedIndices("tsx")

\* both lists hold the winners of several groups, one of them of a group
\* whose maximum is shared (the first member wins)
C28_Witness ==
  /\ fpc = "both"
  /\ Len(jsonOut) > 1
  /\ Len(domOut) = Len(jsonOut)
  /\ \E k \in DOMAIN jsonOut : \E j \in DOMAIN attributes :
       /\ attributes[j].index # jsonOut[k].index
       /\ attributes[j].probability = jsonOut[k].probability
       /\ \E g \in DOMAIN attributeGroups("tsx") :
            {attributes[j].index, jsonOut[k].index} \subseteq Members(g)

====
